---- MODULE Spec2Model ----
(***************************************************************************)
(* The option-strategy backtester of investment_lab/backtest.py:           *)
(* StrategyBacktester.compute_backtest (transaction-cost rewrite,          *)
(* per-instrument differencing, the sequential NAV loop, publication of    *)
(* the result tables) and the three transaction-cost classes.              *)
(*                                                                         *)
(* Numbers are fixed-point integers.  Dates are calendar-day numbers, so   *)
(* "x - pd.Timedelta(days=1)" is x - 1.  A missing value (np.nan, NaT) is  *)
(* the value NaN below and propagates through arithmetic as in numpy.      *)
(* Market values are chosen so that every product the code forms is an     *)
(* exact integer: prices and gammas are even, the relative half spread is  *)
(* counted in halves (One = 1.0).                                          *)
(***************************************************************************)
EXTENDS Integers, Sequences, FiniteSets, TLC

\* Trading dates of the position book range over 1..MaxDate.
MaxDate == 3

\* The table handed to the constructor holds 0..MaxRows rows.
MaxRows == 4

\* A trade expires at most MaxLife calendar days after its entry.
MaxLife == 4

\* np.nan / pd.NaT
NaN == -999999

\* The value 1.0 of relative_half_spread, which is counted in halves.
One == 2

VARIABLES
    cls,                    \* class of the engine (fixes apply_tcost)
    positions,              \* df_positions_raw: the preprocessed position table
    tcost_args,             \* relative_half_spread given to compute_backtest
    pc,                     \* where the engine is
    df_positions,           \* the differenced table, sorted by option_id, date
    todo,                   \* dates the loop has still to process, ascending
    df_pnl,                 \* running P&L table: date -> Daily P&L Vector
    df_nav,                 \* running NAV series: date -> NAV
    drifted_positions,      \* list of the per-date frames df_day
    is_backtested,          \* self._is_backtested
    out_pnl,                \* self._df_pnl
    out_nav,                \* self._df_nav
    out_metainfo,           \* self._df_metainfo
    out_drifted_positions,  \* self._df_drifted_positions
    read,                   \* the last accessor read and how it ended
    error,                  \* the exception compute_backtest ended with
    twin_positions,         \* a second position book (two-run comparison)
    twin_df_positions,      \* its differenced table
    twin_df_pnl,            \* its running P&L table
    twin_df_nav,            \* its running NAV series
    df_caller,              \* the table the caller gave to the constructor
    self_df_positions,      \* self._df_positions
    missing_cols,           \* the columns the constructor reported missing
    df_options,             \* the option data file read by OptionLoader
    call,                   \* the arguments of a helper function called alone
    result                  \* what that call returned

vars == <<cls, positions, tcost_args, pc, df_positions, todo, df_pnl, df_nav,
          drifted_positions, is_backtested, out_pnl, out_nav, out_metainfo,
          out_drifted_positions, read, error, twin_positions, twin_df_positions,
          twin_df_pnl, twin_df_nav, df_caller, self_df_positions,
          missing_cols, df_options, call, result>>

callerVars ==
    <<df_caller, self_df_positions, missing_cols, df_options, call, result>>

twinVars == <<twin_positions, twin_df_positions, twin_df_pnl, twin_df_nav>>

(***************************************************************************)
(* Arithmetic with missing values.                                         *)
(***************************************************************************)
IsNa(x) == x = NaN

Mul(a, b) == IF IsNa(a) \/ IsNa(b) THEN NaN ELSE a * b

Add(a, b) == IF IsNa(a) \/ IsNa(b) THEN NaN ELSE a + b

Sub(a, b) == IF IsNa(a) \/ IsNa(b) THEN NaN ELSE a - b

Neg(a) == IF IsNa(a) THEN NaN ELSE 0 - a

\* 0.5 * a
Half(a) == IF IsNa(a) THEN NaN ELSE a \div 2

\* a == b on two columns: a missing value equals nothing
Eq(a, b) == ~IsNa(a) /\ ~IsNa(b) /\ a = b

\* a < b: false on a missing value
Lt(a, b) == ~IsNa(a) /\ ~IsNa(b) /\ a < b

\* Series.fillna(0)
FillNa0(x) == IF IsNa(x) THEN 0 ELSE x

\* Series.sum(): missing values are skipped, the empty sum is 0
RECURSIVE SumSkipNa(_)
SumSkipNa(s) ==
    IF s = <<>> THEN 0
    ELSE FillNa0(Head(s)) + SumSkipNa(Tail(s))

SetMin(S) == CHOOSE x \in S : \A y \in S : x <= y

SetMax(S) == CHOOSE x \in S : \A y \in S : y <= x

EmptyFrame == <<>>

(***************************************************************************)
(* Market data joined to the positions by _preprocess_positions: one value *)
(* per instrument and date.  Instrument 2 has no vega on date 1.           *)
(***************************************************************************)
OptionIds == {1, 2}

MidData == << <<10, 12, 8, 14, 10>>, <<6, 4, 8, 6, 10>> >>

BidData == << <<8, 10, 6, 12, 8>>, <<4, 2, 6, 4, 8>> >>

AskData == << <<12, 14, 10, 16, 12>>, <<8, 6, 10, 8, 12>> >>

SpotData == << <<100, 102, 99, 101, 100>>, <<100, 102, 99, 101, 100>> >>

VolData == << <<20, 22, 21, 23, 20>>, <<NaN, 30, 33, 31, 30>> >>

DeltaData == << <<5, 6, 4, 5, 5>>, <<-3, -4, -2, -3, -3>> >>

GammaData == << <<2, 4, 2, 2, 2>>, <<2, 2, 4, 2, 2>> >>

ThetaData == << <<-1, -2, -1, -1, -1>>, <<-3, -1, -2, -1, -1>> >>

VegaData == << <<4, 3, 5, 4, 4>>, <<NaN, 2, 3, 2, 2>> >>

RhoData == << <<1, 2, 1, 1, 1>>, <<-1, -2, -1, -1, -1>> >>

\* Instrument 1 is held short or long, instrument 2 long.
Weights(i) == IF i = 1 THEN {-1, 2} ELSE {1}

\* One (date, instrument) observation of the preprocessed position table.
PositionRow(i, d, entry, expiry, w) ==
    [option_id |-> i, date |-> d, entry_date |-> entry, expiration |-> expiry,
     weight |-> w, mid |-> MidData[i][d], bid |-> BidData[i][d],
     ask |-> AskData[i][d], spot |-> SpotData[i][d],
     implied_volatility |-> VolData[i][d], delta |-> DeltaData[i][d],
     gamma |-> GammaData[i][d], theta |-> ThetaData[i][d],
     vega |-> VegaData[i][d], rho |-> RhoData[i][d]]

\* The rows of one instrument: held on every date of first..last, entered
\* on its first date or the day before, expiring on its last date or later.
LegRows(i, first, last, entry, expiry, w) ==
    {PositionRow(i, d, entry, expiry, w) : d \in first..last}

Legs(i) ==
    {{}} \cup
    UNION {UNION {UNION {
        {LegRows(i, first, last, entry, expiry, w) : w \in Weights(i)}
            : expiry \in {last, last + 1}}
            : entry \in {first - 1, first}}
            : first \in 1..MaxDate, last \in 1..MaxDate}

PositionBooks == {l1 \cup l2 : l1 \in Legs(1), l2 \in Legs(2)}

(***************************************************************************)
(* Transaction cost policies: apply_tcost of the three classes.  A table   *)
(* that is not ordered yet is the set of its rows.                         *)
(***************************************************************************)
Classes == {"StrategyBacktester", "BacktesterBidAskFromData",
            "BacktesterFixedRelativeBidAsk"}

\* relative_half_spread values, in halves: -0.5, 0, 0.5, 1, 1.5
RelativeHalfSpreads == {-1, 0, 1, 2, 3}

\* tcost_args = None: no relative_half_spread is given
NoArgs == NaN

\* no helper function is being called on its own
NoCall == <<>>

\* util.check_is_true: TRUE when it raises ValueError
check_is_true_raises(condition) == ~condition

\* StrategyBacktester.apply_tcost
PassthroughTCost(df) == df

\* Variant of BidAskMid: the entry rewrites come after the exit rewrites
BidAskMidEntryLast(r) ==
    LET trade_in_filter == Eq(r.entry_date, r.date)
        trade_out_filter == Eq(r.expiration, r.date)
        short_position_filter == Lt(r.weight, 0)
        long_position_filter == ~short_position_filter
        m1 == IF trade_out_filter /\ short_position_filter THEN r.ask ELSE r.mid
        m2 == IF trade_out_filter /\ long_position_filter THEN r.bid ELSE m1
        m3 == IF trade_in_filter /\ short_position_filter THEN r.bid ELSE m2
        m4 == IF trade_in_filter /\ long_position_filter THEN r.ask ELSE m3
    IN  m4

\* The four np.where rewrites of one row of BacktesterBidAskFromData, in
\* the order the code applies them.
BidAskMid(r) ==
    LET trade_in_filter == Eq(r.entry_date, r.date)
        trade_out_filter == Eq(r.expiration, r.date)
        short_position_filter == Lt(r.weight, 0)
        long_position_filter == ~short_position_filter
        m1 == IF trade_in_filter /\ short_position_filter THEN r.bid ELSE r.mid
        m2 == IF trade_out_filter /\ short_position_filter THEN r.ask ELSE m1
        m3 == IF trade_in_filter /\ long_position_filter THEN r.ask ELSE m2
        m4 == IF trade_out_filter /\ long_position_filter THEN r.bid ELSE m3
    IN  m4

\* BacktesterBidAskFromData.apply_tcost
BidAskFromDataTCost(df) == {[r EXCEPT !.mid = BidAskMid(r)] : r \in df}

\* Variant of SpreadInRange: the endpoints are excluded
SpreadInRangeOpen(s) == 0 < s /\ s < One

\* The range check of BacktesterFixedRelativeBidAsk.apply_tcost
SpreadInRange(s) == 0 <= s /\ s <= One

\* mid * (1 + s), mid * (1 - s), with s in halves
SyntheticAsk(mid, s) == Half(Mul(mid, One + s))

SyntheticBid(mid, s) == Half(Mul(mid, One - s))

\* Variant of FixedRelativeTCost: the table handed on is the one received,
\* not the copy with the synthetic quotes
FixedRelativeTCostNoCopy(df, s) == BidAskFromDataTCost(df)

\* BacktesterFixedRelativeBidAsk.apply_tcost after its range check
FixedRelativeTCost(df, s) ==
    BidAskFromDataTCost(
        {[r EXCEPT !.ask = SyntheticAsk(r.mid, s),
                   !.bid = SyntheticBid(r.mid, s)] : r \in df})

\* cls.apply_tcost(df_positions_raw, **tcost_args) raises
TCostRaises(c, s) ==
    IF c = "BacktesterFixedRelativeBidAsk"
    THEN IsNa(s) \/ check_is_true_raises(SpreadInRange(s))
    ELSE FALSE

\* cls.apply_tcost(df_positions_raw, **tcost_args) when it returns
ApplyTCost(c, df, s) ==
    CASE c = "StrategyBacktester" -> PassthroughTCost(df)
      [] c = "BacktesterBidAskFromData" -> BidAskFromDataTCost(df)
      [] c = "BacktesterFixedRelativeBidAsk" -> FixedRelativeTCost(df, s)

\* The arguments compute_backtest may be given for an engine of class c.
\* The first two classes take **kwargs and ignore them.
\* Variant of TCostArgAfter: the rewrites are made in the table received
TCostArgWrittenInPlace(c, df, s) == ApplyTCost(c, df, s)

\* the table handed to cls.apply_tcost, as it is when the call returns:
\* the two rewriting policies work on df_positions.copy(), the passthrough
\* returns its argument as it is
TCostArgAfter(c, df, s) == df

TCostArgs(c) ==
    IF c = "BacktesterFixedRelativeBidAsk"
    THEN RelativeHalfSpreads \cup {NoArgs}
    ELSE {NoArgs}

(***************************************************************************)
(* Per-instrument differencer (compute_backtest, lines 52-86).             *)
(***************************************************************************)
RowBefore(a, b) ==
    \/ a.option_id < b.option_id
    \/ a.option_id = b.option_id /\ a.date < b.date

\* DataFrame.sort_values(["option_id", "date"])
RECURSIVE SortValues(_)
SortValues(df) ==
    IF df = {} THEN <<>>
    ELSE LET m == CHOOSE r \in df : \A q \in df \ {r} : RowBefore(r, q)
         IN  <<m>> \o SortValues(df \ {m})

\* row i has an earlier row of the same option_id right before it
HasPrev(df, i) == i > 1 /\ df[i - 1].option_id = df[i].option_id

\* Variant of GroupDiff: the difference is taken without grouping
GroupDiffUngrouped(df, col, i) ==
    IF i > 1 THEN Sub(df[i][col], df[i - 1][col]) ELSE NaN

\* df.groupby(["option_id"])[col].diff()
GroupDiff(df, col, i) ==
    IF HasPrev(df, i) THEN Sub(df[i][col], df[i - 1][col]) ELSE NaN

\* df.groupby("option_id")[col].shift(1)
GroupShift(df, col, i) ==
    IF HasPrev(df, i) THEN df[i - 1][col] ELSE NaN

\* Series.fillna(method="bfill") of the whole column s, read at row i: the
\* next value present at or after row i, whatever instrument it belongs to
RECURSIVE BFill(_, _)
BFill(s, i) ==
    IF i > Len(s) THEN NaN
    ELSE IF ~IsNa(s[i]) THEN s[i]
    ELSE BFill(s, i + 1)

\* df.groupby("option_id")[col].shift(1).fillna(method="bfill")
PrevGreek(df, col, i) ==
    BFill([j \in 1..Len(df) |-> GroupShift(df, col, j)], i)

\* dr: the rate difference is switched off in the code
RateDiff(df, i) == NaN

\* Variant of ObsDate: the day before the trading date of the row
ObsDateOfTradingDate(r) == Sub(r.date, 1)

\* obs_date = entry_date - 1 day
ObsDate(r) == Sub(r.entry_date, 1)

\* The differenced position table
Differenced(df) ==
    [i \in 1..Len(df) |->
        df[i] @@
        [dv |-> FillNa0(GroupDiff(df, "mid", i)),
         dr |-> RateDiff(df, i),
         dsigma |-> FillNa0(GroupDiff(df, "implied_volatility", i)),
         dS |-> FillNa0(GroupDiff(df, "spot", i)),
         dt |-> 1,
         prev_theta |-> PrevGreek(df, "theta", i),
         prev_gamma |-> PrevGreek(df, "gamma", i),
         prev_delta |-> PrevGreek(df, "delta", i),
         prev_vega |-> PrevGreek(df, "vega", i),
         prev_rho |-> PrevGreek(df, "rho", i),
         obs_date |-> ObsDate(df[i])]]

\* Variant of Prepared: the differences are taken on the quoted mid and
\* the cost rewrite is applied to the mid column afterwards
PreparedCostLast(c, df, s) ==
    LET diffed == Differenced(SortValues(df))
        cost == SortValues(ApplyTCost(c, df, s))
    IN  [i \in 1..Len(diffed) |->
            [diffed[i] EXCEPT !.mid = cost[i].mid, !.bid = cost[i].bid,
                              !.ask = cost[i].ask]]

\* lines 52-86 as a whole: cost rewrite, sort, differences, lagged Greeks
Prepared(c, df, s) == Differenced(SortValues(ApplyTCost(c, df, s)))

\* df_positions["date"].min() - pd.Timedelta(days=1); NaT on an empty table
SeedDate(df) ==
    IF Len(df) = 0 THEN NaN
    ELSE Sub(SetMin({df[i].date : i \in 1..Len(df)}), 1)

\* df_positions["date"].sort_values().unique()
RECURSIVE Ascending(_)
Ascending(S) ==
    IF S = {} THEN <<>>
    ELSE <<SetMin(S)>> \o Ascending(S \ {SetMin(S)})

\* Variant of UniqueDates: the dates are taken latest first
RECURSIVE Descending(_)
Descending(S) ==
    IF S = {} THEN <<>>
    ELSE <<SetMax(S)>> \o Descending(S \ {SetMax(S)})

UniqueDatesDescending(df) == Descending({df[i].date : i \in 1..Len(df)})

\* Variant of UniqueDates: the dates are not made unique
UniqueDatesRepeated(df) ==
    Ascending({df[i].date : i \in 1..Len(df)})
        \o Ascending({df[i].date : i \in 1..Len(df)})

UniqueDates(df) == Ascending({df[i].date : i \in 1..Len(df)})

(***************************************************************************)
(* Daily attribution step (the body of the date loop, lines 104-143).      *)
(***************************************************************************)
PnlCols == {"pnl", "delta_pnl", "gamma_pnl", "theta_pnl", "vega_pnl",
            "rho_pnl", "residual_pnl", "leverage", "cashflow"}

MetaCols == {"leverage", "cashflow"}

\* df_day.merge(df_nav, left_on="obs_date", right_index=True, how="left"):
\* the NAV at obs_date, missing when obs_date is no key of the series
AnchorNav(nav, obs_date) ==
    IF obs_date \in DOMAIN nav THEN nav[obs_date] ELSE NaN

ScaledWeight(r, nav) == Mul(r.weight, AnchorNav(nav, r.obs_date))

GammaPnl(r, sw) == Half(Mul(Mul(sw, Mul(r.dS, r.dS)), r.prev_gamma))

DeltaPnl(r, sw) == Mul(Mul(sw, r.dS), r.prev_delta)

ThetaPnl(r, sw) == Mul(Mul(sw, r.dt), r.prev_theta)

VegaPnl(r, sw) == Mul(Mul(sw, r.dsigma), r.prev_vega)

RhoPnl(r, sw) == Mul(Mul(sw, r.dr), r.prev_rho)

ResidualPnl(pnl, delta_pnl, gamma_pnl, theta_pnl, vega_pnl, rho_pnl) ==
    Sub(Sub(Sub(Sub(Sub(pnl, delta_pnl), gamma_pnl), theta_pnl), vega_pnl),
        rho_pnl)

\* cashflow: 0, then the entry-date rows, then the expiration-date rows
Cashflow(r, sw) ==
    LET c0 == 0
        c1 == IF Eq(r.entry_date, r.date) THEN Neg(Mul(sw, r.mid)) ELSE c0
        c2 == IF Eq(r.expiration, r.date) THEN Mul(sw, r.mid) ELSE c1
    IN  c2

\* Variant of DayRow: the pnl of a row is the sum of its delta, gamma, theta
\* and vega attributions
DayRowPnlOfGreeks(r, nav) ==
    LET sw == ScaledWeight(r, nav)
        gamma_pnl == GammaPnl(r, sw)
        delta_pnl == DeltaPnl(r, sw)
        theta_pnl == ThetaPnl(r, sw)
        vega_pnl == VegaPnl(r, sw)
        rho_pnl == RhoPnl(r, sw)
        pnl == Add(Add(Add(delta_pnl, gamma_pnl), theta_pnl), vega_pnl)
    IN  r @@
        [NAV |-> AnchorNav(nav, r.obs_date),
         scaled_weight |-> sw,
         pnl |-> pnl,
         gamma_pnl |-> gamma_pnl,
         delta_pnl |-> delta_pnl,
         theta_pnl |-> theta_pnl,
         vega_pnl |-> vega_pnl,
         rho_pnl |-> rho_pnl,
         residual_pnl |-> ResidualPnl(pnl, delta_pnl, gamma_pnl, theta_pnl,
                                      vega_pnl, rho_pnl),
         leverage |-> Mul(sw, r.spot),
         cashflow |-> Cashflow(r, sw)]

\* one row of df_day with its computed columns
DayRow(r, nav) ==
    LET sw == ScaledWeight(r, nav)
        pnl == Mul(sw, r.dv)
        gamma_pnl == GammaPnl(r, sw)
        delta_pnl == DeltaPnl(r, sw)
        theta_pnl == ThetaPnl(r, sw)
        vega_pnl == VegaPnl(r, sw)
        rho_pnl == RhoPnl(r, sw)
    IN  r @@
        [NAV |-> AnchorNav(nav, r.obs_date),
         scaled_weight |-> sw,
         pnl |-> pnl,
         gamma_pnl |-> gamma_pnl,
         delta_pnl |-> delta_pnl,
         theta_pnl |-> theta_pnl,
         vega_pnl |-> vega_pnl,
         rho_pnl |-> rho_pnl,
         residual_pnl |-> ResidualPnl(pnl, delta_pnl, gamma_pnl, theta_pnl,
                                      vega_pnl, rho_pnl),
         leverage |-> Mul(sw, r.spot),
         cashflow |-> Cashflow(r, sw)]

\* df_positions[df_positions["date"] == d]
RowsOfDate(df, d) == SelectSeq(df, LAMBDA r : r.date = d)

\* df_day after line 141
DayFrame(df, nav, d) ==
    LET rows == RowsOfDate(df, d)
    IN  [i \in 1..Len(rows) |-> DayRow(rows[i], nav)]

\* one column of df_day.groupby("date")[_PNL_COLS].sum()
ColumnSum(day, col) == SumSkipNa([i \in 1..Len(day) |-> day[i][col]])

\* df_day.groupby("date")[_PNL_COLS].sum(): the Daily P&L Vector of the date
DayVector(day) == [col \in PnlCols |-> ColumnSum(day, col)]

\* Variant of LatestNav: every entry is built on the seed entry
LatestNavFromSeed(nav, d) == nav[SetMin(DOMAIN nav)]

\* lines 144-148: the NAV the new entry is built on
LatestNav(nav, d) ==
    IF d \notin DOMAIN nav THEN nav[SetMax(DOMAIN nav)] ELSE nav[d]

\* Variant of NavAfter: the update overwrites the latest entry
NavAfterOverwrite(nav, d, pnl) ==
    [x \in DOMAIN nav |->
        IF x = SetMax(DOMAIN nav) THEN Add(LatestNav(nav, d), pnl)
        ELSE nav[x]]

\* line 149: df_nav.loc[d] = latest_nav + df_pnl.loc[d, "pnl"]
NavAfter(nav, d, pnl) ==
    [x \in DOMAIN nav \cup {d} |->
        IF x = d THEN Add(LatestNav(nav, d), pnl) ELSE nav[x]]

\* pd.concat([df_pnl, <the vector of date d>])
PnlAfter(pnltab, d, vector) ==
    [x \in DOMAIN pnltab \cup {d} |-> IF x = d THEN vector ELSE pnltab[x]]

\* the seed rows of df_pnl and df_nav (lines 87-96)
SeedPnl(df) == [x \in {SeedDate(df)} |-> [col \in PnlCols |-> 0]]

SeedNav(df) == [x \in {SeedDate(df)} |-> 1]

\* Variant of DropMeta: no column is dropped
DropNothing(pnltab) == pnltab

\* df_pnl.drop(columns=["leverage", "cashflow"])
DropMeta(pnltab) ==
    [x \in DOMAIN pnltab |-> [col \in PnlCols \ MetaCols |-> pnltab[x][col]]]

\* df_pnl[["leverage", "cashflow"]]
OnlyMeta(pnltab) ==
    [x \in DOMAIN pnltab |-> [col \in MetaCols |-> pnltab[x][col]]]

\* pd.concat(drifted_positions).reset_index(drop=True)
RECURSIVE Concat(_)
Concat(frames) ==
    IF frames = <<>> THEN <<>> ELSE Head(frames) \o Concat(Tail(frames))

(***************************************************************************)
(* The engine.                                                             *)
(***************************************************************************)
Accessors == {"pnl", "nav", "metainfo", "drifted_positions"}

NoRead == [accessor |-> "none", outcome |-> "none"]

NoError == "none"

\* apply_tcost() missing the keyword-only argument relative_half_spread
MissingArgument == "TypeError: missing relative_half_spread"

\* check_is_true at line 291
RangeError == "ValueError: relative half spread must be between 0 and 1"

\* pd.concat([]) at line 157
ConcatError == "ValueError: No objects to concatenate"

\* the exception cls.apply_tcost(df_positions_raw, **tcost_args) raises
TCostError(c, s) == IF IsNa(s) THEN MissingArgument ELSE RangeError

(***************************************************************************)
(* StrategyBacktester.__init__.  The table of the caller is the set of its *)
(* column names and the list of its rows; its dates are observation dates, *)
(* one business day before the trading dates of the preprocessed table.    *)
(***************************************************************************)
\* _BACKTEST_COLS
BacktestCols ==
    {"date", "option_id", "entry_date", "leg_name", "weight", "ticker"}

\* one row of a caller's table that carries a quote column of its own
CallerRow(i, d, entry, w) ==
    [date |-> d, option_id |-> i, entry_date |-> entry, leg_name |-> "leg",
     weight |-> w, ticker |-> "SPY", mid |-> 10]

\* df[columns]: a new table with the chosen columns of every row
Select(t, columns) ==
    [columns |-> columns,
     rows |-> [k \in 1..Len(t.rows) |-> [c \in columns |-> t.rows[k][c]]]]

\* the tables a caller may hand over: any row count, any of the required
\* columns absent, a column the engine does not ask for present or not
CallerTables ==
    {Select([columns |-> BacktestCols \cup {"mid"},
             rows |-> [k \in 1..n |-> CallerRow(1, k, 1, 1)]], columns) :
        n \in 0..MaxRows, columns \in SUBSET (BacktestCols \cup {"mid"})}

\* rows of an instrument quoted only after its expiration: preprocessing
\* drops them (date <= expiration fails)
DroppedRows ==
    [k \in 1..3 |-> [c \in BacktestCols |-> CallerRow(0, k - 1, 0, 1)[c]]]

\* a table of the caller that preprocessing turns into book
CallerTableOf(book) ==
    [columns |-> BacktestCols,
     rows |-> DroppedRows \o
              [k \in 1..Cardinality(book) |->
                  LET r == SortValues(book)[k]
                  IN  [date |-> r.date - 1, option_id |-> r.option_id,
                       entry_date |-> r.entry_date, leg_name |-> "leg",
                       weight |-> r.weight, ticker |-> "SPY"]]]

\* the quotes of the option data file that the join of preprocessing found
\* for the rows of book
QuotesOf(book) ==
    {[c \in (DOMAIN r) \ {"entry_date", "weight"} |-> r[c]] : r \in book}

\* set(self._BACKTEST_COLS).difference(df_positions.columns)
MissingCols(t) == BacktestCols \ t.columns

\* len(df_positions) > 2, accepting a table of two rows
EnoughRowsFromTwo(t) == Len(t.rows) >= 2

\* len(df_positions) > 2
EnoughRows(t) == Len(t.rows) > 2

NoMissingCols == {}

MissingColumnsError ==
    "ValueError: Positions data is missing required columns"

TooFewRowsError ==
    "ValueError: Positions data is empty or too small to run backtest."

\* StrategyBacktester.__init__ has accepted the table; compute_backtest
\* has made its working copy (_preprocess_positions).
Init ==
    /\ cls \in Classes
    /\ positions \in PositionBooks
    /\ tcost_args = NoArgs
    /\ pc = "constructed"
    /\ df_positions = EmptyFrame
    /\ todo = <<>>
    /\ df_pnl = EmptyFrame
    /\ df_nav = EmptyFrame
    /\ drifted_positions = <<>>
    /\ is_backtested = FALSE
    /\ out_pnl = EmptyFrame
    /\ out_nav = EmptyFrame
    /\ out_metainfo = EmptyFrame
    /\ out_drifted_positions = EmptyFrame
    /\ read = NoRead
    /\ error = NoError
    /\ twin_positions = {}
    /\ twin_df_positions = EmptyFrame
    /\ twin_df_pnl = EmptyFrame
    /\ twin_df_nav = EmptyFrame
    /\ df_caller = CallerTableOf(positions)
    /\ self_df_positions = Select(df_caller, BacktestCols)
    /\ missing_cols = NoMissingCols
    /\ df_options = QuotesOf(positions)
    /\ call = NoCall
    /\ result = NoCall

\* compute_backtest, lines 46-102, when apply_tcost raises
ComputeBacktestRaise ==
    /\ pc = "constructed"
    /\ \E s \in TCostArgs(cls) :
        /\ TCostRaises(cls, s)
        /\ tcost_args' = s
        /\ error' = TCostError(cls, s)
    /\ pc' = "raised"
    /\ read' = NoRead
    /\ UNCHANGED <<cls, positions, df_positions, todo, df_pnl, df_nav,
                   drifted_positions, is_backtested, out_pnl, out_nav,
                   out_metainfo, out_drifted_positions, twinVars,
                   callerVars>>

\* compute_backtest, lines 46-102: cost rewrite, differencing, seeding
Begin ==
    /\ pc = "constructed"
    /\ \E s \in TCostArgs(cls) :
        /\ ~TCostRaises(cls, s)
        /\ tcost_args' = s
        /\ df_positions' = Prepared(cls, positions, s)
        /\ positions' = TCostArgAfter(cls, positions, s)
    /\ todo' = UniqueDates(df_positions')
    /\ df_pnl' = SeedPnl(df_positions')
    /\ df_nav' = SeedNav(df_positions')
    /\ drifted_positions' = <<>>
    /\ pc' = "loop"
    /\ read' = NoRead
    /\ UNCHANGED <<cls, is_backtested, out_pnl, out_nav, out_metainfo,
                   out_drifted_positions, error, callerVars>>

ComputeBacktestBegin == Begin /\ UNCHANGED twinVars

\* one iteration of the date loop, lines 103-150
Day ==
    /\ pc = "loop"
    /\ todo # <<>>
    /\ LET d == Head(todo)
           df_day == DayFrame(df_positions, df_nav, d)
       IN  /\ df_pnl' = PnlAfter(df_pnl, d, DayVector(df_day))
           /\ df_nav' = NavAfter(df_nav, d, df_pnl'[d].pnl)
           /\ drifted_positions' = Append(drifted_positions, df_day)
    /\ todo' = Tail(todo)
    /\ UNCHANGED <<cls, positions, tcost_args, pc, df_positions,
                   is_backtested, out_pnl, out_nav, out_metainfo,
                   out_drifted_positions, read, error, callerVars>>

ComputeBacktestDay == Day /\ UNCHANGED twinVars

\* lines 152-158 after the loop; pd.concat raises ValueError on an empty
\* list, that is when the table had no row and the loop no iteration
End ==
    /\ pc = "loop"
    /\ todo = <<>>
    /\ is_backtested' = TRUE
    /\ out_pnl' = DropMeta(df_pnl)
    /\ out_nav' = df_nav
    /\ out_metainfo' = OnlyMeta(df_pnl)
    /\ IF drifted_positions = <<>>
       THEN /\ pc' = "raised"
            /\ error' = ConcatError
            /\ UNCHANGED out_drifted_positions
       ELSE /\ pc' = "done"
            /\ out_drifted_positions' = Concat(drifted_positions)
            /\ UNCHANGED error
    /\ UNCHANGED <<cls, positions, tcost_args, df_positions, todo, df_pnl,
                   df_nav, drifted_positions, read, callerVars>>

ComputeBacktestEnd == End /\ UNCHANGED twinVars

\* the properties pnl, nav, metainfo, drifted_positions (lines 206-236),
\* read by the caller while no compute_backtest call is running
ReadAccessor ==
    /\ pc \in {"constructed", "done", "raised"}
    /\ \E a \in Accessors :
        read' = [accessor |-> a,
                 outcome |-> IF check_is_true_raises(is_backtested)
                             THEN "raised" ELSE "returned"]
    /\ UNCHANGED <<cls, positions, tcost_args, pc, df_positions, todo,
                   df_pnl, df_nav, drifted_positions, is_backtested, out_pnl,
                   out_nav, out_metainfo, out_drifted_positions, error,
                   twinVars, callerVars>>

Next ==
    \/ ComputeBacktestRaise
    \/ ComputeBacktestBegin
    \/ ComputeBacktestDay
    \/ ComputeBacktestEnd
    \/ ReadAccessor

Spec == Init /\ [][Next]_vars

\* The steps ComputeBacktestDay and ComputeBacktestEnd seen from the control
\* state alone: the first is the step that shortens todo, the second the
\* step that leaves the loop.
controlVars == <<pc, todo>>

LoopAdvances ==
    /\ pc = "loop"
    /\ todo # <<>>
    /\ todo' = Tail(todo)
    /\ pc' = pc

LoopEnds ==
    /\ pc = "loop"
    /\ todo = <<>>
    /\ pc' \in {"done", "raised"}
    /\ todo' = todo

\* compute_backtest is sequential code in one thread: once called, every
\* iteration of the loop and the statements after it are executed
SpecLive ==
    Spec /\ WF_controlVars(LoopAdvances) /\ WF_controlVars(LoopEnds)

(***************************************************************************)
(* The constructor on its own: a caller's table goes in, an engine or an   *)
(* exception comes out.                                                    *)
(***************************************************************************)
\* an attribute of the engine the constructor has not assigned yet
Unset == "unset"

InitConstruct ==
    /\ cls \in Classes
    /\ df_caller \in CallerTables
    /\ pc = "new"
    /\ self_df_positions = Unset
    /\ missing_cols = NoMissingCols
    /\ df_options = {}
    /\ call = NoCall
    /\ result = NoCall
    /\ positions = {}
    /\ tcost_args = NoArgs
    /\ df_positions = EmptyFrame
    /\ todo = <<>>
    /\ df_pnl = EmptyFrame
    /\ df_nav = EmptyFrame
    /\ drifted_positions = <<>>
    /\ is_backtested = Unset
    /\ out_pnl = Unset
    /\ out_nav = Unset
    /\ out_metainfo = Unset
    /\ out_drifted_positions = Unset
    /\ read = NoRead
    /\ error = NoError
    /\ twin_positions = {}
    /\ twin_df_positions = EmptyFrame
    /\ twin_df_pnl = EmptyFrame
    /\ twin_df_nav = EmptyFrame

\* __init__, lines 35-38: one of the two check_is_true calls raises
ConstructRaise ==
    /\ pc = "new"
    /\ \/ /\ check_is_true_raises(MissingCols(df_caller) = {})
          /\ error' = MissingColumnsError
          /\ missing_cols' = MissingCols(df_caller)
       \/ /\ ~check_is_true_raises(MissingCols(df_caller) = {})
          /\ check_is_true_raises(EnoughRows(df_caller))
          /\ error' = TooFewRowsError
          /\ UNCHANGED missing_cols
    /\ pc' = "rejected"
    /\ UNCHANGED <<cls, positions, tcost_args, df_positions, todo, df_pnl,
                   df_nav, drifted_positions, is_backtested, out_pnl, out_nav,
                   out_metainfo, out_drifted_positions, read, twinVars,
                   df_caller, self_df_positions, df_options, call, result>>

\* __init__, lines 35-44: both checks pass
Construct ==
    /\ pc = "new"
    /\ ~check_is_true_raises(MissingCols(df_caller) = {})
    /\ ~check_is_true_raises(EnoughRows(df_caller))
    /\ self_df_positions' = Select(df_caller, BacktestCols)
    /\ is_backtested' = FALSE
    /\ out_pnl' = EmptyFrame
    /\ out_nav' = EmptyFrame
    /\ out_metainfo' = EmptyFrame
    /\ out_drifted_positions' = EmptyFrame
    /\ pc' = "constructed"
    /\ UNCHANGED <<cls, positions, tcost_args, df_positions, todo, df_pnl,
                   df_nav, drifted_positions, read, error, twinVars,
                   df_caller, missing_cols, df_options, call, result>>

NextConstruct ==
    \/ ConstructRaise
    \/ Construct
    \/ ReadAccessor

SpecConstruct == InitConstruct /\ [][NextConstruct]_vars

(***************************************************************************)
(* _preprocess_positions on its own: the table of the caller and the       *)
(* option data file go in, the preprocessed position table comes out.      *)
(* Day 0 is a Monday.  Of the columns of the option data, the expiration,  *)
(* the three prices, the spot, delta and theta are kept; the other Greeks  *)
(* and the volatility are joined and filled like theta.                    *)
(***************************************************************************)
IsBusinessDay(d) == d % 7 \notin {5, 6}

\* x + pd.offsets.BDay(1)
RECURSIVE NextBDay(_)
NextBDay(d) == IF IsBusinessDay(d + 1) THEN d + 1 ELSE NextBDay(d + 1)

\* pd.date_range(start, end, freq="B")
BusinessDays(a, b) == {d \in a..b : IsBusinessDay(d)}

\* option_id of a hedge leg: the ticker of the underlying itself
TickerId == 0

\* the daily rows of one trade, dated by observation date
TradeRows(i, entry, expiry, w) ==
    {[date |-> d, option_id |-> i, entry_date |-> entry, leg_name |-> "leg",
      weight |-> w, ticker |-> "SPY"] : d \in BusinessDays(entry, expiry)}

\* trades entered on a Wednesday, a Thursday or a Friday
EntryDates == {2, 3, 4}

\* an option trade, with or without a hedge leg in the underlying held on
\* the same days; the constructor has accepted the table (3 rows or more)
TradeTables ==
    {t \in UNION {UNION {
        {TradeRows(1, e, x, w),
         TradeRows(1, e, x, w) \cup TradeRows(TickerId, e, x, 0 - w)}
            : x \in BusinessDays(e, e + MaxLife)}
            : e \in EntryDates, w \in {-1, 2}}
        : Cardinality(t) > 2}

QuoteCols == {"expiration", "mid", "bid", "ask", "spot", "delta", "theta"}

\* one row of the option data file: option i quoted on date d
OptionQuote(i, d, expiry) ==
    [option_id |-> i, date |-> d, ticker |-> "SPY", expiration |-> expiry,
     mid |-> 10 + 2 * d, bid |-> 8 + 2 * d, ask |-> 12 + 2 * d,
     spot |-> 100 + d, delta |-> 5, theta |-> -1]

\* the contract expiration of the option of a trade table
ExpirationOf(t) == SetMax({r.date : r \in t})

\* the option data files: the option is quoted on any of the business
\* days from the day after entry to the day after its expiration
OptionFiles(t) ==
    {{OptionQuote(1, d, ExpirationOf(t)) : d \in days} :
        days \in SUBSET BusinessDays(SetMin({r.date : r \in t}) + 1,
                                     NextBDay(ExpirationOf(t)))}

\* OptionLoader.load_data(start, end, process_kwargs={"ticker": tickers})
LoadData(options, start, end) ==
    {q \in options : start <= q.date /\ q.date <= end}

\* df_spot: one row per date and ticker of the option data, the underlying
\* quoted at its spot with delta 1; pd.concat leaves its other columns null
SpotRows(options) ==
    {[option_id |-> TickerId, date |-> q.date, ticker |-> q.ticker,
      spot |-> q.spot, bid |-> q.spot, ask |-> q.spot, mid |-> q.spot,
      delta |-> 1, expiration |-> NaN, theta |-> NaN] : q \in options}

\* df_positions_cp.merge(df_options_spot, how="left",
\*                       on=["ticker", "option_id", "date"])
LeftMerge(rows, table) ==
    UNION {LET hits == {q \in table : /\ q.ticker = r.ticker
                                      /\ q.option_id = r.option_id
                                      /\ q.date = r.date}
           IN  IF hits = {} THEN {r @@ [c \in QuoteCols |-> NaN]}
               ELSE {r @@ [c \in QuoteCols |-> q[c]] : q \in hits}
           : r \in rows}

\* (date <= expiration) | expiration.isna()
NotExpired(r) == IsNa(r.expiration) \/ r.date <= r.expiration

\* util.ffill_options_data: within an option_id, in date order, a null is
\* replaced by the last value known before it
FFillOptionsData(rows) ==
    {[c \in DOMAIN r |->
        IF c \notin QuoteCols \/ ~IsNa(r[c]) THEN r[c]
        ELSE LET known == {p \in rows : /\ p.option_id = r.option_id
                                        /\ p.date < r.date
                                        /\ ~IsNa(p[c])}
             IN  IF known = {} THEN NaN
                 ELSE (CHOOSE p \in known :
                          \A x \in known : x.date <= p.date)[c]]
        : r \in rows}

\* StrategyBacktester._preprocess_positions
PreprocessPositions(rows, options) ==
    LET df_positions_cp == {[r EXCEPT !.date = NextBDay(r.date)] : r \in rows}
        start == SetMin({r.date : r \in df_positions_cp})
        end == SetMax({r.date : r \in df_positions_cp})
        loaded == LoadData(options, start, end)
        df_options_spot == loaded \cup SpotRows(loaded)
        df_positions_extended == LeftMerge(df_positions_cp, df_options_spot)
    IN  FFillOptionsData({r \in df_positions_extended : NotExpired(r)})

InitPreprocess ==
    /\ cls \in Classes
    /\ \E t \in TradeTables :
           /\ df_caller = [columns |-> BacktestCols, rows |-> SortValues(t)]
           /\ df_options \in OptionFiles(t)
    /\ self_df_positions = Select(df_caller, BacktestCols)
    /\ missing_cols = NoMissingCols
    /\ call = NoCall
    /\ result = NoCall
    /\ positions = {}
    /\ tcost_args = NoArgs
    /\ pc = "constructed"
    /\ df_positions = EmptyFrame
    /\ todo = <<>>
    /\ df_pnl = EmptyFrame
    /\ df_nav = EmptyFrame
    /\ drifted_positions = <<>>
    /\ is_backtested = FALSE
    /\ out_pnl = EmptyFrame
    /\ out_nav = EmptyFrame
    /\ out_metainfo = EmptyFrame
    /\ out_drifted_positions = EmptyFrame
    /\ read = NoRead
    /\ error = NoError
    /\ twin_positions = {}
    /\ twin_df_positions = EmptyFrame
    /\ twin_df_pnl = EmptyFrame
    /\ twin_df_nav = EmptyFrame

\* compute_backtest, lines 47-49: the call of _preprocess_positions
Preprocess ==
    /\ pc = "constructed"
    /\ positions' =
           PreprocessPositions(
               {self_df_positions.rows[k] :
                    k \in 1..Len(self_df_positions.rows)}, df_options)
    /\ pc' = "preprocessed"
    /\ UNCHANGED <<cls, tcost_args, df_positions, todo, df_pnl, df_nav,
                   drifted_positions, is_backtested, out_pnl, out_nav,
                   out_metainfo, out_drifted_positions, read, error,
                   twinVars, callerVars>>

NextPreprocess ==
    \/ Preprocess
    \/ ReadAccessor

SpecPreprocess == InitPreprocess /\ [][NextPreprocess]_vars

(***************************************************************************)
(* Two runs of compute_backtest side by side: the engine above on          *)
(* positions, and the same code on twin_positions, a book that differs     *)
(* from positions in one Greek or price value of one row.  Both books have *)
(* the same dates, so the two loops advance together.                      *)
(***************************************************************************)
MutableColumns == {"mid", "delta", "gamma", "theta", "vega", "rho"}

\* the books that differ from book in one value of one row
SingleValueChanges(book) ==
    {(book \ {r}) \cup {[r EXCEPT ![col] = r[col] + 2]} :
        r \in book, col \in MutableColumns}

\* books without missing value in a changed column and without exit rows
TwinBooks ==
    {b \in PositionBooks :
        /\ b # {}
        /\ \A r \in b : ~IsNa(r.vega) /\ r.expiration # r.date}

InitTwin ==
    /\ cls = "StrategyBacktester"
    /\ positions \in TwinBooks
    /\ twin_positions \in SingleValueChanges(positions)
    /\ tcost_args = NoArgs
    /\ pc = "constructed"
    /\ df_positions = EmptyFrame
    /\ todo = <<>>
    /\ df_pnl = EmptyFrame
    /\ df_nav = EmptyFrame
    /\ drifted_positions = <<>>
    /\ is_backtested = FALSE
    /\ out_pnl = EmptyFrame
    /\ out_nav = EmptyFrame
    /\ out_metainfo = EmptyFrame
    /\ out_drifted_positions = EmptyFrame
    /\ read = NoRead
    /\ error = NoError
    /\ twin_df_positions = EmptyFrame
    /\ twin_df_pnl = EmptyFrame
    /\ twin_df_nav = EmptyFrame
    /\ df_caller = CallerTableOf(positions)
    /\ self_df_positions = Select(df_caller, BacktestCols)
    /\ missing_cols = NoMissingCols
    /\ df_options = QuotesOf(positions)
    /\ call = NoCall
    /\ result = NoCall

TwinBegin ==
    /\ Begin
    /\ twin_df_positions' = Prepared(cls, twin_positions, tcost_args')
    /\ twin_df_pnl' = SeedPnl(twin_df_positions')
    /\ twin_df_nav' = SeedNav(twin_df_positions')
    /\ UNCHANGED twin_positions

TwinDay ==
    /\ Day
    /\ LET d == Head(todo)
           df_day == DayFrame(twin_df_positions, twin_df_nav, d)
       IN  /\ twin_df_pnl' = PnlAfter(twin_df_pnl, d, DayVector(df_day))
           /\ twin_df_nav' = NavAfter(twin_df_nav, d, twin_df_pnl'[d].pnl)
    /\ UNCHANGED <<twin_positions, twin_df_positions>>

TwinEnd == End /\ UNCHANGED twinVars

NextTwin ==
    \/ TwinBegin
    \/ TwinDay
    \/ TwinEnd

SpecTwin == InitTwin /\ [][NextTwin]_vars

(***************************************************************************)
(* rates.interpolate_rates on its own: an evaluation tenor, the tenors of  *)
(* a curve and its rates go in, a rate or an exception comes out.  Tenors  *)
(* are whole numbers of a time unit and are listed in ascending order, as  *)
(* the columns of the rate file are; rates are whole basis points.  The    *)
(* returned float is kept exact as a fraction num / den; a division by a   *)
(* zero tenor gap gives inf or nan in numpy and a nan result, 0 / 0 here.  *)
(***************************************************************************)
MaxTenor == 5
MaxCurveLen == 3
MaxRate == 3

\* no backtester is involved in a call of a helper function
NoBacktester ==
    /\ cls = "StrategyBacktester"
    /\ df_caller = Unset
    /\ self_df_positions = Unset
    /\ missing_cols = Unset
    /\ df_options = {}
    /\ positions = {}
    /\ tcost_args = NoArgs
    /\ df_positions = EmptyFrame
    /\ todo = <<>>
    /\ df_pnl = EmptyFrame
    /\ df_nav = EmptyFrame
    /\ drifted_positions = <<>>
    /\ is_backtested = FALSE
    /\ out_pnl = EmptyFrame
    /\ out_nav = EmptyFrame
    /\ out_metainfo = EmptyFrame
    /\ out_drifted_positions = EmptyFrame
    /\ read = NoRead
    /\ error = NoError
    /\ twin_positions = {}
    /\ twin_df_positions = EmptyFrame
    /\ twin_df_pnl = EmptyFrame
    /\ twin_df_nav = EmptyFrame

backtesterVars ==
    <<cls, positions, tcost_args, df_positions, todo, df_pnl, df_nav,
      drifted_positions, is_backtested, out_pnl, out_nav, out_metainfo,
      out_drifted_positions, read, twinVars, df_caller, self_df_positions,
      missing_cols, df_options>>

\* the ascending sequence of the members of a set of numbers
RECURSIVE AscendingSeq(_)
AscendingSeq(S) ==
    IF S = {} THEN <<>>
    ELSE LET least == CHOOSE x \in S : \A y \in S : x <= y
         IN  <<least>> \o AscendingSeq(S \ {least})

\* the sequences over V of a length from lo to hi
SeqsOfLen(V, lo, hi) == UNION {[1..n -> V] : n \in lo..hi}

\* numpy min / max of an array
ArrayMin(a) == CHOOSE x \in {a[i] : i \in DOMAIN a} :
                   \A i \in DOMAIN a : x <= a[i]

ArrayMax(a) == CHOOSE x \in {a[i] : i \in DOMAIN a} :
                   \A i \in DOMAIN a : x >= a[i]

\* numpy argmin / argmax: the first position holding the least / greatest
ArgMin(a) == CHOOSE i \in DOMAIN a :
                 /\ a[i] = ArrayMin(a)
                 /\ \A j \in DOMAIN a : j < i => a[j] # a[i]

ArgMax(a) == CHOOSE i \in DOMAIN a :
                 /\ a[i] = ArrayMax(a)
                 /\ \A j \in DOMAIN a : j < i => a[j] # a[i]

\* tenors[tenors >= eval_tenor] and tenors[tenors <= eval_tenor]: a new
\* array of the kept values, numbered from its own start
TenorsFrom(tenors, eval_tenor) ==
    LET Keep(t) == t >= eval_tenor IN SelectSeq(tenors, Keep)

TenorsUpTo(tenors, eval_tenor) ==
    LET Keep(t) == t <= eval_tenor IN SelectSeq(tenors, Keep)

\* a float result, exactly
Exact(n) == [num |-> n, den |-> 1]

\* the float nan
NanResult == [num |-> 0, den |-> 0]

\* two exact results are the same number
SameNumber(x, y) ==
    /\ x.den # 0
    /\ y.den # 0
    /\ x.num * y.den = y.num * x.den

\* the position as the code takes it: counted from the start of the
\* filtered array
IdxAbove(tenors, eval_tenor) == ArgMin(TenorsFrom(tenors, eval_tenor))

IdxBelow(tenors, eval_tenor) == ArgMax(TenorsUpTo(tenors, eval_tenor))

\* interpolate_rates after its length check
InterpolateRates(eval_tenor, tenors, rate_curve) ==
    IF eval_tenor <= ArrayMin(tenors) THEN Exact(rate_curve[ArgMin(tenors)])
    ELSE IF eval_tenor >= ArrayMax(tenors)
    THEN Exact(rate_curve[ArgMax(tenors)])
    ELSE LET idx_above == IdxAbove(tenors, eval_tenor)
             idx_below == IdxBelow(tenors, eval_tenor)
             tenor_above == tenors[idx_above]
             tenor_below == tenors[idx_below]
             rate_above == rate_curve[idx_above]
             rate_below == rate_curve[idx_below]
             \* weight_above = above_num / gap, weight_below = 1 - that
             above_num == eval_tenor - tenor_below
             gap == tenor_above - tenor_below
         IN  IF gap = 0 THEN NanResult
             ELSE [num |-> (gap - above_num) * rate_below
                               + above_num * rate_above,
                   den |-> gap]

LengthError == "Tenors and rate curve must have the same length."

\* the calls: strictly ascending tenors, any curve of rates
RateCalls ==
    {[eval_tenor |-> e, tenors |-> AscendingSeq(T), rate_curve |-> c] :
         e \in 0..(MaxTenor + 1),
         T \in {S \in SUBSET (1..MaxTenor) :
                    Cardinality(S) \in 2..MaxCurveLen},
         c \in SeqsOfLen(0..MaxRate, 2, MaxCurveLen)}

InitRates ==
    /\ NoBacktester
    /\ call \in RateCalls
    /\ result = NoCall
    /\ pc = "called"
    /\ error = NoError

\* interpolate_rates, line 56: the length check fails
InterpolateRatesRaise ==
    /\ pc = "called"
    /\ check_is_true_raises(Len(call.tenors) = Len(call.rate_curve))
    /\ error' = LengthError
    /\ pc' = "raised"
    /\ UNCHANGED <<backtesterVars, call, result>>

\* interpolate_rates, lines 54-65
InterpolateRatesReturn ==
    /\ pc = "called"
    /\ ~check_is_true_raises(Len(call.tenors) = Len(call.rate_curve))
    /\ result' = InterpolateRates(call.eval_tenor, call.tenors,
                                  call.rate_curve)
    /\ pc' = "interpolated"
    /\ UNCHANGED <<backtesterVars, call, error>>

NextRates ==
    \/ InterpolateRatesRaise
    \/ InterpolateRatesReturn

SpecRates == InitRates /\ [][NextRates]_vars

(***************************************************************************)
(* option_selection.select_options on its own: a cross section of daily    *)
(* options, the call/put flag, the name of the strike column and the two   *)
(* targets go in; the selected options or an exception come out.  A frame  *)
(* is the set of its column names and the list of its rows.                *)
(***************************************************************************)
MaxOptions == 3
MaxDte == 3
MaxStrike == 3
SelectionDates == {1, 2}

OptionCols ==
    {"date", "ticker", "expiration", "day_to_expiration", "call_put",
     "strike"}

\* the options of the data: every expiration is listed day_to_expiration
\* days after the date
OptionRows ==
    {[date |-> d, ticker |-> TickerId, expiration |-> d + n,
      day_to_expiration |-> n, call_put |-> cp, strike |-> k] :
         d \in SelectionDates, n \in 1..MaxDte, cp \in {"C", "P"},
         k \in 1..MaxStrike}

\* the cross sections: up to MaxOptions different options in any order
OptionFrames ==
    {[columns |-> OptionCols, rows |-> s] :
         s \in {q \in SeqsOfLen(OptionRows, 1, MaxOptions) :
                    \A i, j \in DOMAIN q : i # j => q[i] # q[j]}}

Abs(x) == IF x < 0 THEN -x ELSE x

\* the values of a row in the columns of a group
GroupKey(r, groupby_cols) == [c \in groupby_cols |-> r[c]]

\* _select_close_target, line 62: the columns it needs and does not find
MissingTargetCols(df, target_col, groupby_cols) ==
    (groupby_cols \union {target_col}) \ df.columns

\* _select_close_target, lines 63-65: the rows whose distance to the target
\* is the least of their group, in the order of df
SelectCloseTarget(df, target_col, target, groupby_cols) ==
    LET criterion(r) == Abs(r[target_col] - target)
        Group(r) == {df.rows[i] : i \in {j \in DOMAIN df.rows :
                         GroupKey(df.rows[j], groupby_cols)
                             = GroupKey(r, groupby_cols)}}
        df_minimum_dist(r) ==
            CHOOSE c \in {criterion(q) : q \in Group(r)} :
                \A q \in Group(r) : c <= criterion(q)
        Closest(r) == criterion(r) = df_minimum_dist(r)
    IN  [columns |-> df.columns \ {"criterion"},
         rows |-> SelectSeq(df.rows, Closest)]

MaturityGroup == {"date", "ticker"}

StrikeGroup == {"date", "ticker", "expiration"}

select_closest_maturity(df_option, target) ==
    SelectCloseTarget(df_option, "day_to_expiration", target, MaturityGroup)

\* df_option[df_option["call_put"] == call_put]
OfType(df_option, call_put) ==
    LET Keep(r) == r.call_put = call_put
    IN  [columns |-> df_option.columns,
         rows |-> SelectSeq(df_option.rows, Keep)]

\* select_closest_strike after its checks
select_closest_strike(df_option, strike_col, target, call_put) ==
    SelectCloseTarget(OfType(df_option, call_put), strike_col, target,
                      StrikeGroup)

\* drop_duplicates(cols): the first row of every combination of values
DropDuplicates(df, cols) ==
    [columns |-> df.columns,
     rows |-> LET rows == df.rows
                  First(i) == \A j \in 1..(i - 1) :
                      GroupKey(rows[j], cols) # GroupKey(rows[i], cols)
                  kept == {i \in DOMAIN rows : First(i)}
                  RECURSIVE Take(_)
                  Take(i) == IF i > Len(rows) THEN <<>>
                             ELSE (IF i \in kept THEN <<rows[i]>> ELSE <<>>)
                                      \o Take(i + 1)
              IN  Take(1)]

\* select_options when nothing raises
select_options(df_option, call_or_put, strike_col, strike_target, day_to_expiry_target) ==
    DropDuplicates(
        select_closest_strike(
            select_closest_maturity(df_option, day_to_expiry_target),
            strike_col, strike_target, call_or_put),
        MaturityGroup)

CallPutError == "Error, call_put must be either P or C."

MissingTargetColsError == "Error, the following columns are missing"

\* the exception select_options raises, if any: the flag is checked before
\* the columns of the strike selection
SelectOptionsError(c) ==
    IF check_is_true_raises(
           MissingTargetCols(c.df_options, "day_to_expiration",
                             MaturityGroup) = {})
    THEN MissingTargetColsError
    ELSE IF check_is_true_raises(c.call_or_put \in {"C", "P"})
    THEN CallPutError
    ELSE IF check_is_true_raises(
                MissingTargetCols(c.df_options, c.strike_col, StrikeGroup)
                    = {})
    THEN MissingTargetColsError
    ELSE NoError

\* the calls: the frames have no delta column
SelectionCalls ==
    {[df_options |-> f, call_or_put |-> cp, strike_col |-> col,
      strike_target |-> 2, day_to_expiry_target |-> 2] :
         f \in OptionFrames, cp \in {"C", "P", "X"},
         col \in {"strike", "delta"}}

InitSelection ==
    /\ NoBacktester
    /\ call \in SelectionCalls
    /\ result = NoCall
    /\ pc = "called"
    /\ error = NoError

\* select_options raises; the maturity selection has already written the
\* criterion column into the frame of the caller (line 63)
SelectOptionsRaise ==
    /\ pc = "called"
    /\ SelectOptionsError(call) # NoError
    /\ error' = SelectOptionsError(call)
    /\ call' = [call EXCEPT !.df_options.columns = @ \union {"criterion"}]
    /\ pc' = "raised"
    /\ UNCHANGED <<backtesterVars, result>>

\* select_options, lines 28-33
SelectOptionsReturn ==
    /\ pc = "called"
    /\ SelectOptionsError(call) = NoError
    /\ result' = select_options(call.df_options, call.call_or_put,
                                call.strike_col, call.strike_target,
                                call.day_to_expiry_target)
    /\ call' = [call EXCEPT !.df_options.columns = @ \union {"criterion"}]
    /\ pc' = "selected"
    /\ UNCHANGED <<backtesterVars, error>>

NextSelection ==
    \/ SelectOptionsRaise
    \/ SelectOptionsReturn

SpecSelection == InitSelection /\ [][NextSelection]_vars

(***************************************************************************)
(* Vocabulary of the properties.                                           *)
(***************************************************************************)
\* the distinct trading dates of the position book
BookDates == {r.date : r \in positions}

\* the dates the loop has processed so far
ProcessedDates == BookDates \ {todo[i] : i \in 1..Len(todo)}

\* compute_backtest has got past its preparation
Started == pc \in {"loop", "done"}

RECURSIVE SumOfPnl(_)
SumOfPnl(S) ==
    IF S = {} THEN 0
    ELSE LET d == SetMin(S) IN df_pnl[d].pnl + SumOfPnl(S \ {d})

\* every row of every per-date frame computed so far
DriftedRows ==
    UNION {{drifted_positions[k][i] : i \in 1..Len(drifted_positions[k])} :
              k \in 1..Len(drifted_positions)}

\* the synthetic seed date: the day before the earliest trading date
BookSeedDate == IF BookDates = {} THEN NaN ELSE SetMin(BookDates) - 1

\* the date loop has run to its end and the tables are published
Published == is_backtested

\* the sum of a list of values: null as soon as one value is null
RECURSIVE Total(_)
Total(s) == IF s = <<>> THEN 0 ELSE Add(Head(s), Total(Tail(s)))

\* the per-date frame df_day of the processed date d
FrameOfDate(d) ==
    drifted_positions[CHOOSE k \in 1..Len(drifted_positions) :
                          drifted_positions[k][1].date = d]

\* one column of the per-date frame of d, row by row
ColumnOfDate(d, col) ==
    [i \in 1..Len(FrameOfDate(d)) |-> FrameOfDate(d)[i][col]]

\* the rows of the per-date frame of d, in no order
RowsOfFrame(d) == {FrameOfDate(d)[i] : i \in 1..Len(FrameOfDate(d))}

\* the sum over a set of rows of weight * anchor NAV * the value in col
RECURSIVE WeightedSum(_, _)
WeightedSum(rows, col) ==
    IF rows = {} THEN 0
    ELSE LET r == CHOOSE x \in rows : TRUE
         IN  Add(Mul(Mul(r.weight, r.NAV), r[col]),
                 WeightedSum(rows \ {r}, col))

\* the rows of the differenced table, in no order
PreparedRows == {df_positions[i] : i \in 1..Len(df_positions)}

\* the earlier rows of the instrument of row q
EarlierRows(q) ==
    {p \in PreparedRows : p.option_id = q.option_id /\ p.date < q.date}

\* the row of the same instrument immediately preceding row q
PrecedingRow(q) ==
    CHOOSE p \in EarlierRows(q) : \A x \in EarlierRows(q) : x.date <= p.date

Greeks == {"theta", "gamma", "delta", "vega", "rho"}

\* the name of the lagged column of Greek g
PrevCol(g) ==
    CASE g = "theta" -> "prev_theta"
      [] g = "gamma" -> "prev_gamma"
      [] g = "delta" -> "prev_delta"
      [] g = "vega" -> "prev_vega"
      [] g = "rho" -> "prev_rho"

\* the rows of the instrument of row q on which Greek g is known
KnownRows(q, g) ==
    {p \in PreparedRows : p.option_id = q.option_id /\ ~IsNa(p[g])}

\* the earliest known value of Greek g of the instrument of row q
EarliestKnown(q, g) ==
    (CHOOSE p \in KnownRows(q, g) :
        \A x \in KnownRows(q, g) : p.date <= x.date)[g]

\* the table the cost policy of the engine returns for the position table
CostTable == ApplyTCost(cls, positions, tcost_args)

\* the row of the cost table for the instrument and date of row q
CostRow(q) ==
    CHOOSE t \in CostTable : t.option_id = q.option_id /\ t.date = q.date

\* the keys the NAV series had when date d was processed
NavKeysBefore(d) == {x \in DOMAIN df_nav : x < d}

(***************************************************************************)
(* Properties.                                                             *)
(***************************************************************************)

\* C1, as claimed: after compute_backtest, in every date row of the
\* aggregated daily P&L output, pnl = delta_pnl + gamma_pnl + theta_pnl +
\* vega_pnl + rho_pnl + residual_pnl.
C1_DecompositionIdentity ==
    pc = "done" =>
        \A d \in DOMAIN out_pnl :
            out_pnl[d].pnl =
                out_pnl[d].delta_pnl + out_pnl[d].gamma_pnl
                + out_pnl[d].theta_pnl + out_pnl[d].vega_pnl
                + out_pnl[d].rho_pnl + out_pnl[d].residual_pnl

\* C2: the NAV series holds 1 at the day before the earliest position date;
\* every processed date's NAV is the most recent earlier entry plus the
\* date's aggregated pnl, hence 1 plus the pnl of all dates up to it.
C2_NavCompounding ==
    (Started /\ positions # {}) =>
        LET seed == SetMin(BookDates) - 1
        IN  /\ seed \in DOMAIN df_nav
            /\ df_nav[seed] = 1
            /\ \A d \in ProcessedDates :
                /\ d \in DOMAIN df_nav
                /\ df_nav[d] =
                       df_nav[SetMax(NavKeysBefore(d))] + df_pnl[d].pnl
                /\ df_nav[d] =
                       1 + SumOfPnl({e \in ProcessedDates : e <= d})

\* C2 witness: three dates are processed, two with a pnl that is not zero
C2_Witness ==
    /\ pc = "done"
    /\ Cardinality(ProcessedDates) >= 3
    /\ Cardinality({d \in ProcessedDates : df_pnl[d].pnl # 0}) >= 2

\* C3, as claimed: the anchor NAV of every row of every processed date is
\* present: NAV[obs_date] when obs_date is a key of the NAV series built so
\* far, and otherwise the value at the maximum date of that series.
C3_AnchorResolved ==
    \A r \in DriftedRows :
        /\ ~IsNa(r.NAV)
        /\ r.NAV = IF r.obs_date \in NavKeysBefore(r.date)
                   THEN df_nav[r.obs_date]
                   ELSE df_nav[SetMax(NavKeysBefore(r.date))]

\* the rows of an instrument's first observation among the computed frames
FirstRows ==
    {r \in DriftedRows :
        r.date = SetMin({q.date : q \in {p \in positions :
                                            p.option_id = r.option_id}})}

\* C5, as claimed: the row of an instrument's first observation has
\* delta_pnl, gamma_pnl, theta_pnl, vega_pnl, rho_pnl and residual_pnl all
\* equal to zero.
C5_FirstObservationNeutral ==
    \A r \in FirstRows :
        /\ r.delta_pnl = 0
        /\ r.gamma_pnl = 0
        /\ r.theta_pnl = 0
        /\ r.vega_pnl = 0
        /\ r.rho_pnl = 0
        /\ r.residual_pnl = 0

\* C5, amended: on the row of an instrument's first observation dv, dsigma
\* and dS are 0, so pnl, delta_pnl, gamma_pnl and vega_pnl are zero (null
\* when the anchor NAV or the lagged Greek is null) and never another
\* number; theta_pnl is scaled_weight * prev_theta because dt is 1 on every
\* row; rho_pnl and residual_pnl are null because dr is.
C5_FirstObservationAmended ==
    \A r \in FirstRows :
        /\ r.dv = 0 /\ r.dsigma = 0 /\ r.dS = 0 /\ r.dt = 1
        /\ r.pnl = (IF IsNa(r.scaled_weight) THEN NaN ELSE 0)
        /\ r.delta_pnl =
              (IF IsNa(r.scaled_weight) \/ IsNa(r.prev_delta) THEN NaN ELSE 0)
        /\ r.gamma_pnl =
              (IF IsNa(r.scaled_weight) \/ IsNa(r.prev_gamma) THEN NaN ELSE 0)
        /\ r.vega_pnl =
              (IF IsNa(r.scaled_weight) \/ IsNa(r.prev_vega) THEN NaN ELSE 0)
        /\ r.theta_pnl =
              (IF IsNa(r.scaled_weight) \/ IsNa(r.prev_theta) THEN NaN
               ELSE r.scaled_weight * r.prev_theta)
        /\ IsNa(r.rho_pnl)
        /\ IsNa(r.residual_pnl)

\* C5 witness: the first row of instrument 2, which follows the rows of
\* instrument 1 in the table, with a theta_pnl that is a number, not zero
C5_Witness ==
    \E r \in FirstRows :
        /\ r.option_id = 2
        /\ \E q \in positions : q.option_id = 1 /\ q.spot # r.spot
        /\ ~IsNa(r.theta_pnl)
        /\ r.theta_pnl # 0
        /\ r.delta_pnl = 0

\* the row of the prepared table that comes from position row r
Rewritten(r) ==
    LET i == CHOOSE j \in 1..Len(df_positions) :
                 /\ df_positions[j].option_id = r.option_id
                 /\ df_positions[j].date = r.date
    IN  df_positions[i]

IsEntryRow(r) == r.entry_date = r.date

IsExitRow(r) == r.expiration = r.date

\* C6, as claimed (BacktesterBidAskFromData.apply_tcost): on an entry-date
\* row mid becomes ask for weight > 0 and bid for weight < 0; on an
\* expiration-date row mid becomes bid for weight > 0 and ask for
\* weight < 0; on every other row mid is unchanged.
C6_BidAskDirection ==
    (cls = "BacktesterBidAskFromData" /\ Started) =>
        \A r \in positions :
            LET m == Rewritten(r).mid
            IN  /\ (IsEntryRow(r) /\ r.weight > 0) => m = r.ask
                /\ (IsEntryRow(r) /\ r.weight < 0) => m = r.bid
                /\ (IsExitRow(r) /\ r.weight > 0) => m = r.bid
                /\ (IsExitRow(r) /\ r.weight < 0) => m = r.ask
                /\ (~IsEntryRow(r) /\ ~IsExitRow(r)) => m = r.mid

\* C6, amended: the entry rule holds on the entry-date rows that are not
\* also expiration-date rows; the exit rule on every expiration-date row.
C6_BidAskDirectionAmended ==
    (cls = "BacktesterBidAskFromData" /\ Started) =>
        \A r \in positions :
            LET m == Rewritten(r).mid
            IN  /\ (IsEntryRow(r) /\ ~IsExitRow(r) /\ r.weight > 0)
                       => m = r.ask
                /\ (IsEntryRow(r) /\ ~IsExitRow(r) /\ r.weight < 0)
                       => m = r.bid
                /\ (IsExitRow(r) /\ r.weight > 0) => m = r.bid
                /\ (IsExitRow(r) /\ r.weight < 0) => m = r.ask
                /\ (~IsEntryRow(r) /\ ~IsExitRow(r)) => m = r.mid

\* C6 witness: a short instrument with an entry-date row, a row in between
\* and an expiration-date row, and a long row that is entry and expiration
C6_Witness ==
    /\ cls = "BacktesterBidAskFromData"
    /\ Started
    /\ \E r \in positions : r.weight < 0 /\ IsEntryRow(r) /\ ~IsExitRow(r)
    /\ \E r \in positions : r.weight < 0 /\ ~IsEntryRow(r) /\ IsExitRow(r)
    /\ \E r \in positions : r.weight < 0 /\ ~IsEntryRow(r) /\ ~IsExitRow(r)
    /\ \E r \in positions : r.weight > 0 /\ IsEntryRow(r) /\ IsExitRow(r)

\* compute_backtest was called with relative_half_spread = tcost_args
CalledWithSpread ==
    /\ cls = "BacktesterFixedRelativeBidAsk"
    /\ pc # "constructed"
    /\ ~IsNa(tcost_args)

NothingPublished ==
    /\ ~is_backtested
    /\ out_pnl = EmptyFrame
    /\ out_nav = EmptyFrame
    /\ out_metainfo = EmptyFrame
    /\ out_drifted_positions = EmptyFrame

\* C7: BacktesterFixedRelativeBidAsk.apply_tcost raises for a
\* relative_half_spread below 0 or above 1, before any price is rewritten,
\* and the engine stays not computed; for a value in [0, 1], endpoints
\* included, it raises no range error.
C7_SpreadRangeCheck ==
    CalledWithSpread =>
        IF tcost_args < 0 \/ tcost_args > One
        THEN /\ pc = "raised"
             /\ error = RangeError
             /\ df_positions = EmptyFrame
             /\ NothingPublished
        ELSE error # RangeError /\ error # MissingArgument

\* C7 witness: compute_backtest was called with relative_half_spread = 1.5
C7_Witness ==
    /\ CalledWithSpread
    /\ 2 * tcost_args = 3 * One
    /\ pc = "raised"
    /\ positions # {}

\* C8, as claimed (BacktesterFixedRelativeBidAsk.apply_tcost, s in [0,1]):
\* bid and ask become mid*(1-s) and mid*(1+s) of the original mid; a long
\* entry row gets mid*(1+s), a long exit row mid*(1-s), a short entry row
\* mid*(1-s), a short exit row mid*(1+s), every other row keeps mid; with
\* s = 0 every row keeps mid.
C8_FixedRelativeSpread ==
    (CalledWithSpread /\ Started) =>
        \A r \in positions :
            LET q == Rewritten(r)
                up == r.mid * (One + tcost_args)
                down == r.mid * (One - tcost_args)
            IN  /\ One * q.ask = up
                /\ One * q.bid = down
                /\ (IsEntryRow(r) /\ r.weight > 0) => One * q.mid = up
                /\ (IsExitRow(r) /\ r.weight > 0) => One * q.mid = down
                /\ (IsEntryRow(r) /\ r.weight < 0) => One * q.mid = down
                /\ (IsExitRow(r) /\ r.weight < 0) => One * q.mid = up
                /\ (~IsEntryRow(r) /\ ~IsExitRow(r)) => q.mid = r.mid
                /\ tcost_args = 0 => q.mid = r.mid

\* C8, amended: the entry rule holds on the entry-date rows that are not
\* also expiration-date rows; the exit rule on every expiration-date row.
C8_FixedRelativeSpreadAmended ==
    (CalledWithSpread /\ Started) =>
        \A r \in positions :
            LET q == Rewritten(r)
                up == r.mid * (One + tcost_args)
                down == r.mid * (One - tcost_args)
            IN  /\ One * q.ask = up
                /\ One * q.bid = down
                /\ (IsEntryRow(r) /\ ~IsExitRow(r) /\ r.weight > 0)
                       => One * q.mid = up
                /\ (IsExitRow(r) /\ r.weight > 0) => One * q.mid = down
                /\ (IsEntryRow(r) /\ ~IsExitRow(r) /\ r.weight < 0)
                       => One * q.mid = down
                /\ (IsExitRow(r) /\ r.weight < 0) => One * q.mid = up
                /\ (~IsEntryRow(r) /\ ~IsExitRow(r)) => q.mid = r.mid
                /\ tcost_args = 0 => q.mid = r.mid

\* C8 witness: half spread 0.5 on a book with a long entry row, a long exit
\* row and a short row that is entry and expiration
C8_Witness ==
    /\ CalledWithSpread
    /\ Started
    /\ 2 * tcost_args = One
    /\ \E r \in positions : r.weight > 0 /\ IsEntryRow(r) /\ ~IsExitRow(r)
    /\ \E r \in positions : r.weight > 0 /\ ~IsEntryRow(r) /\ IsExitRow(r)
    /\ \E r \in positions : r.weight < 0 /\ IsEntryRow(r) /\ IsExitRow(r)

ChangedDate == (CHOOSE r \in positions : r \notin twin_positions).date

\* C4, as claimed: two books that differ in one Greek or price value of a
\* row dated k give the same Daily P&L Vector and the same NAV on every
\* date before k.
C4_SequentialDependency ==
    twin_positions # {} =>
        \A d \in (DOMAIN df_pnl) \cap (DOMAIN twin_df_pnl) :
            d < ChangedDate =>
                /\ \A col \in PnlCols \ MetaCols :
                       df_pnl[d][col] = twin_df_pnl[d][col]
                /\ df_nav[d] = twin_df_nav[d]

\* C11: the constructor raises an error that reports the set of missing
\* columns whenever a required column is absent from the caller's table,
\* raises when the table has fewer than 3 rows, and otherwise succeeds with
\* the has-run flag false and the four output tables empty; it never
\* modifies the caller's table.
C11_ConstructorChecks ==
    /\ [](pc # "new" =>
            LET missing == BacktestCols \ df_caller.columns
            IN  /\ missing # {} =>
                       /\ pc = "rejected"
                       /\ error = MissingColumnsError
                       /\ missing_cols = missing
                /\ Len(df_caller.rows) < 3 => pc = "rejected"
                /\ (missing = {} /\ Len(df_caller.rows) >= 3) =>
                       /\ pc = "constructed"
                       /\ ~is_backtested
                       /\ out_pnl = EmptyFrame
                       /\ out_nav = EmptyFrame
                       /\ out_metainfo = EmptyFrame
                       /\ out_drifted_positions = EmptyFrame)
    /\ [][df_caller' = df_caller]_vars

\* a table of exactly three rows with a column of its own was accepted
C11_Witness ==
    /\ pc = "constructed"
    /\ Len(df_caller.rows) = 3
    /\ "mid" \in df_caller.columns
    /\ self_df_positions # df_caller

\* C12, as claimed: on every row the cashflow is -scaled_weight * mid when
\* entry_date equals the date, +scaled_weight * mid when expiration equals
\* the date (this one kept when both hold) and 0 otherwise; the cashflow
\* of a date is the sum of the cashflows of its rows.
C12_Cashflow ==
    Started =>
        /\ \A r \in DriftedRows :
               r.cashflow =
                   IF r.expiration = r.date
                   THEN Mul(r.scaled_weight, r.mid)
                   ELSE IF r.entry_date = r.date
                        THEN Neg(Mul(r.scaled_weight, r.mid))
                        ELSE 0
        /\ \A d \in ProcessedDates :
               df_pnl[d].cashflow = Total(ColumnOfDate(d, "cashflow"))

\* C13: while the loop runs, the NAV series has one entry more than dates
\* processed (the seed entry and one entry per processed date); after
\* compute_backtest the NAV table has exactly the seed entry and one entry
\* per distinct trading date of the position table.
C13_NavEntries ==
    /\ pc = "loop" =>
           /\ DOMAIN df_nav = {BookSeedDate} \cup ProcessedDates
           /\ Cardinality(DOMAIN df_nav) = Len(drifted_positions) + 1
           /\ Len(drifted_positions) = Cardinality(ProcessedDates)
    /\ Published =>
           /\ DOMAIN out_nav = {BookSeedDate} \cup BookDates
           /\ Cardinality(DOMAIN out_nav) = Cardinality(BookDates) + 1

\* a book with a gap in its dates has run: seed entry plus two entries
C13_Witness ==
    /\ pc = "done"
    /\ BookDates = {1, 3}
    /\ DOMAIN out_nav = {0, 1, 3}

\* C14, as claimed: the public P&L table has exactly one row per distinct
\* trading date (its row dates are the distinct position dates), with the
\* seven P&L columns and without leverage and cashflow, which the metainfo
\* table carries.
C14_PnlTable ==
    Published =>
        /\ DOMAIN out_pnl = BookDates
        /\ \A d \in DOMAIN out_pnl :
               DOMAIN out_pnl[d] = PnlCols \ {"leverage", "cashflow"}
        /\ \A d \in DOMAIN out_metainfo :
               DOMAIN out_metainfo[d] = {"leverage", "cashflow"}

\* C14, amended: the public P&L table has one row per distinct trading
\* date and one more row, all zeros, at the seed date (the day before the
\* earliest trading date); its columns are the seven P&L columns, leverage
\* and cashflow being in the metainfo table, which has the same row dates.
C14_PnlTableAmended ==
    Published =>
        /\ DOMAIN out_pnl = BookDates \cup {BookSeedDate}
        /\ DOMAIN out_metainfo = DOMAIN out_pnl
        /\ \A d \in DOMAIN out_pnl :
               /\ DOMAIN out_pnl[d] =
                      {"pnl", "delta_pnl", "gamma_pnl", "theta_pnl",
                       "vega_pnl", "rho_pnl", "residual_pnl"}
               /\ DOMAIN out_metainfo[d] = {"leverage", "cashflow"}
        /\ \A col \in DOMAIN out_pnl[BookSeedDate] :
               out_pnl[BookSeedDate][col] = 0

\* the tables of a book with two trading dates are published
C14_Witness ==
    /\ pc = "done"
    /\ BookDates = {2, 3}
    /\ DOMAIN out_pnl = {1, 2, 3}
    /\ out_pnl[3].pnl # 0

\* C15, as claimed: a null rho_pnl or residual_pnl on a row of a date is
\* never suppressed in aggregation: the aggregated vector of the date
\* reports null in that field (or the run has raised and reports nothing).
C15_NullSurfaces ==
    Started =>
        \A d \in ProcessedDates : \A col \in {"rho_pnl", "residual_pnl"} :
            (\E i \in 1..Len(FrameOfDate(d)) : IsNa(FrameOfDate(d)[i][col]))
                => IsNa(df_pnl[d][col])

\* C16: compute_backtest and the apply_tcost of every policy leave the
\* position table supplied by the caller as it was (same rows, same
\* columns, same mid, bid, ask and weight values): the table given to the
\* constructor, the engine's own selection of it and the table handed to
\* apply_tcost never change.  The result of the passthrough policy has the
\* mid of its input on every row.
C16_CallerTableUnchanged ==
    /\ [][/\ df_caller' = df_caller
          /\ self_df_positions' = self_df_positions
          /\ positions' = positions]_vars
    /\ []((Started /\ cls = "StrategyBacktester") =>
              \A r \in positions : Rewritten(r).mid = r.mid)

\* a rewriting policy has returned a table whose mid differs from the mid
\* of the table it was handed, which still holds the quote
C16_Witness ==
    /\ Started
    /\ cls # "StrategyBacktester"
    /\ \E r \in positions :
           /\ Rewritten(r).mid # r.mid
           /\ r.mid = MidData[r.option_id][r.date]
           /\ r.bid = BidData[r.option_id][r.date]

\* C17, as claimed: for every date the aggregated pnl is the sum over the
\* rows of the date of weight * anchor NAV * dv and the aggregated leverage
\* is the sum over those rows of weight * anchor NAV * spot, in whatever
\* order the rows are taken.
C17_AggregationIsRowSum ==
    Started =>
        \A d \in ProcessedDates :
            /\ df_pnl[d].pnl = WeightedSum(RowsOfFrame(d), "dv")
            /\ df_pnl[d].leverage = WeightedSum(RowsOfFrame(d), "spot")

\* C18, as claimed: within each instrument, in date order, dv, dsigma and
\* dS are 0 on the first row and, on every later row, the value of mid,
\* implied_volatility and spot on that row minus the value on the
\* immediately preceding row of the same instrument; dt is 1 on every row.
C18_Differences ==
    Started =>
        \A q \in PreparedRows :
            /\ q.dt = 1
            /\ EarlierRows(q) = {} =>
                   q.dv = 0 /\ q.dsigma = 0 /\ q.dS = 0
            /\ EarlierRows(q) # {} =>
                   LET p == PrecedingRow(q)
                   IN  /\ q.dv = Sub(q.mid, p.mid)
                       /\ q.dsigma =
                              Sub(q.implied_volatility, p.implied_volatility)
                       /\ q.dS = Sub(q.spot, p.spot)

\* C18, amended: as claimed, except that a difference that is null because
\* one of its two values is missing is replaced by 0, as on a first row.
C18_DifferencesAmended ==
    Started =>
        \A q \in PreparedRows :
            /\ q.dt = 1
            /\ EarlierRows(q) = {} =>
                   q.dv = 0 /\ q.dsigma = 0 /\ q.dS = 0
            /\ EarlierRows(q) # {} =>
                   LET p == PrecedingRow(q)
                       OrZero(x) == IF IsNa(x) THEN 0 ELSE x
                   IN  /\ q.dv = OrZero(Sub(q.mid, p.mid))
                       /\ q.dsigma =
                              OrZero(Sub(q.implied_volatility,
                                         p.implied_volatility))
                       /\ q.dS = OrZero(Sub(q.spot, p.spot))

\* two instruments side by side on three dates: one with differences that
\* are not zero, the other with no volatility on its first date
C18_Witness ==
    /\ Started
    /\ \E q \in PreparedRows :
           /\ q.option_id = 1
           /\ q.date = 3
           /\ q.dv = -4
           /\ q.dsigma = -1
           /\ q.dS = -3
    /\ \E q \in PreparedRows :
           /\ q.option_id = 2
           /\ q.date = 2
           /\ EarlierRows(q) # {}
           /\ IsNa(PrecedingRow(q).implied_volatility)
           /\ q.dsigma = 0
           /\ q.dv = -2

\* C19, as claimed: the lagged Greek of a row that has a preceding row of
\* the same instrument is that Greek on the preceding row; on the first
\* row of an instrument it is the instrument's own earliest known value;
\* it is never null and never the value of another instrument, an
\* instrument with a single row included.  (Read for Greeks the instrument
\* has a value of, and for preceding rows on which the Greek is known.)
C19_LaggedGreeks ==
    Started =>
        \A q \in PreparedRows : \A g \in Greeks :
            KnownRows(q, g) # {} =>
                /\ ~IsNa(q[PrevCol(g)])
                /\ EarlierRows(q) = {} => q[PrevCol(g)] = EarliestKnown(q, g)
                /\ (EarlierRows(q) # {} /\ ~IsNa(PrecedingRow(q)[g])) =>
                       q[PrevCol(g)] = PrecedingRow(q)[g]

\* C20: the cost rewrite comes before differencing and attribution: dv of
\* every row is the difference of the rewritten mid (the mid the cost
\* policy returned) to the rewritten mid of the preceding row of the
\* instrument, and the cashflow of an entry or expiration row is formed
\* with the rewritten mid.
C20_CostBeforeDifferencing ==
    Started =>
        /\ \A q \in PreparedRows :
               /\ q.mid = CostRow(q).mid
               /\ EarlierRows(q) # {} =>
                      q.dv = Sub(CostRow(q).mid, CostRow(PrecedingRow(q)).mid)
        /\ \A r \in DriftedRows :
               /\ (r.expiration = r.date) =>
                      r.cashflow = Mul(r.scaled_weight, CostRow(r).mid)
               /\ (r.entry_date = r.date /\ r.expiration # r.date) =>
                      r.cashflow = Neg(Mul(r.scaled_weight, CostRow(r).mid))

\* a rewriting policy at work: a dv that is not the difference of the
\* quoted mids, an entry cashflow that is not formed with the quoted mid
C20_Witness ==
    /\ Started
    /\ cls # "StrategyBacktester"
    /\ \E q \in PreparedRows :
           /\ EarlierRows(q) # {}
           /\ q.dv # MidData[q.option_id][q.date]
                       - MidData[q.option_id][PrecedingRow(q).date]
    /\ \E r \in DriftedRows :
           /\ r.entry_date = r.date
           /\ r.expiration # r.date
           /\ ~IsNa(r.cashflow)
           /\ r.cashflow # 0 - r.scaled_weight * MidData[r.option_id][r.date]

\* C21: the date loop takes the distinct trading dates in strictly
\* ascending order, each exactly once, and when the step of date d runs the
\* NAV series holds only keys strictly earlier than d: the NAV a row of
\* date d was sized with is the NAV of an earlier date.
C21_AscendingOrder ==
    /\ pc = "loop" =>
           /\ \A i \in 1..(Len(todo) - 1) : todo[i] < todo[i + 1]
           /\ \A k \in 1..(Len(drifted_positions) - 1) :
                  drifted_positions[k][1].date
                      < drifted_positions[k + 1][1].date
           /\ \A i \in 1..Len(todo) :
                  /\ \A x \in DOMAIN df_nav : x < todo[i]
                  /\ \A r \in DriftedRows : r.date < todo[i]
           /\ {r.date : r \in DriftedRows}
                  \cup {todo[i] : i \in 1..Len(todo)} = BookDates
           /\ Len(drifted_positions) + Len(todo) = Cardinality(BookDates)
    /\ \A r \in DriftedRows : ~IsNa(r.NAV) => r.obs_date < r.date

\* two of three dates are done, the third is about to be processed
C21_Witness ==
    /\ pc = "loop"
    /\ BookDates = {1, 2, 3}
    /\ todo = <<3>>
    /\ DOMAIN df_nav = {0, 1, 2}
    /\ \E r \in DriftedRows : r.date = 2 /\ r.obs_date = 1 /\ ~IsNa(r.NAV)

\* C22: once compute_backtest has seeded the NAV series (seed entry only),
\* the loop makes one step per distinct trading date and then ends: the
\* has-run flag is eventually set, it is set only when no date is left,
\* and the number of steps made is the number of distinct trading dates.
C22_LoopTerminates ==
    /\ []((pc = "loop" /\ drifted_positions = <<>>) =>
              DOMAIN df_nav = {BookSeedDate})
    /\ [](pc = "loop" => /\ ~is_backtested
                         /\ Len(drifted_positions) + Len(todo)
                                = Cardinality(BookDates))
    /\ [][is_backtested' # is_backtested =>
              /\ is_backtested'
              /\ todo = <<>>
              /\ Len(drifted_positions) = Cardinality(BookDates)]_vars
    /\ (pc = "loop") ~>
           (is_backtested /\ todo = <<>>
               /\ Len(drifted_positions) = Cardinality(BookDates))

\* the loop over three distinct dates has ended and the flag is set
C22_Witness ==
    /\ is_backtested
    /\ pc = "done"
    /\ Cardinality(BookDates) = 3
    /\ Len(drifted_positions) = 3
    /\ Cardinality(positions) > 3

\* C23: obs_date of every row is the calendar day before its entry_date and
\* its scaled weight is weight * NAV[entry_date - 1 day]; hence the rows of
\* one trade (same instrument, entry_date and weight) carry the same scaled
\* weight on every date, whatever has been compounded into the NAV since.
C23_ScaledWeightFixedAtEntry ==
    Started =>
        /\ \A q \in PreparedRows : q.obs_date = q.entry_date - 1
        /\ \A r \in DriftedRows :
               r.scaled_weight =
                   Mul(r.weight, IF r.entry_date - 1 \in DOMAIN df_nav
                                 THEN df_nav[r.entry_date - 1] ELSE NaN)
        /\ \A r1, r2 \in DriftedRows :
               (/\ r1.option_id = r2.option_id
                /\ r1.entry_date = r2.entry_date
                /\ r1.weight = r2.weight) =>
                   r1.scaled_weight = r2.scaled_weight

\* a trade entered at NAV 1 is still sized with NAV 1 on its third date,
\* when the NAV of the day before is no longer 1
C23_Witness ==
    \E r1, r2 \in DriftedRows :
        /\ r1.option_id = r2.option_id
        /\ r1.date = 1
        /\ r2.date = 3
        /\ r2.entry_date = 1
        /\ r2.scaled_weight = r2.weight
        /\ r1.scaled_weight = r2.scaled_weight
        /\ df_nav[2] # 1

\* C24, as claimed: after _preprocess_positions no position row whose
\* expiration is known has a date later than its expiration.
C24_NoRowAfterExpiration ==
    pc = "preprocessed" =>
        \A r \in positions : ~IsNa(r.expiration) => r.date <= r.expiration

\* the positions of two tenors of the curve that are next to each other
AdjacentTenors(tenors) == {i \in DOMAIN tenors : i + 1 \in DOMAIN tenors}

\* the value on the straight line through two adjacent known points
OnTheLine(eval_tenor, tenors, rate_curve, i) ==
    [num |-> rate_curve[i] * (tenors[i + 1] - tenors[i])
                 + (eval_tenor - tenors[i])
                       * (rate_curve[i + 1] - rate_curve[i]),
     den |-> tenors[i + 1] - tenors[i]]

\* C25: interpolate_rates is piecewise linear in the tenor with flat
\* extrapolation: at or below the least known tenor it returns the rate of
\* the least tenor, at or above the greatest the rate of the greatest, at a
\* known tenor the rate of that tenor, and strictly between two adjacent
\* known tenors the value on the straight line through the two known points.
C25_PiecewiseLinear ==
    pc = "interpolated" =>
        LET e == call.eval_tenor
            t == call.tenors
            r == call.rate_curve
        IN  /\ e <= ArrayMin(t) => SameNumber(result, Exact(r[ArgMin(t)]))
            /\ e >= ArrayMax(t) => SameNumber(result, Exact(r[ArgMax(t)]))
            /\ \A i \in DOMAIN t :
                   e = t[i] => SameNumber(result, Exact(r[i]))
            /\ \A i \in AdjacentTenors(t) :
                   t[i] < e /\ e < t[i + 1] =>
                       SameNumber(result, OnTheLine(e, t, r, i))

\* the rows of a frame
FrameRows(df) == {df.rows[i] : i \in DOMAIN df.rows}

\* the options of the input of one date and ticker having the requested type
Candidates(r) ==
    {q \in FrameRows(call.df_options) :
         /\ q.date = r.date
         /\ q.ticker = r.ticker
         /\ q.call_put = call.call_or_put}

\* C26: select_options returns exactly one option for every (date, ticker)
\* of the input that has an option of the requested type; the returned
\* option has that type, its day_to_expiration is nearest to the target
\* and its strike is nearest to the target among the options of that type
\* with the same date, ticker and expiration.
C26_OnePerDateAndTicker ==
    pc = "selected" =>
        /\ \A r \in FrameRows(call.df_options) :
               Candidates(r) # {} =>
                   Cardinality({i \in DOMAIN result.rows :
                       /\ result.rows[i].date = r.date
                       /\ result.rows[i].ticker = r.ticker}) = 1
        /\ \A s \in FrameRows(result) :
               /\ s.call_put = call.call_or_put
               /\ \A q \in Candidates(s) :
                      Abs(s.day_to_expiration - call.day_to_expiry_target)
                          <= Abs(q.day_to_expiration
                                     - call.day_to_expiry_target)
               /\ \A q \in Candidates(s) :
                      q.expiration = s.expiration =>
                          Abs(s.strike - call.strike_target)
                              <= Abs(q.strike - call.strike_target)

\* the date whose NAV entry is the latest one: the date of the last step
\* made, the seed date before the first step
LastEntryDate ==
    IF drifted_positions = <<>> THEN BookSeedDate
    ELSE drifted_positions[Len(drifted_positions)][1].date

\* C27: NAV entries are write-once: each step of the date loop adds exactly
\* one NAV entry, keyed by the current date, and leaves every existing entry
\* unchanged; the current date is never already a key when its entry is
\* written, so the new entry is the entry of the previously processed date
\* (the seed entry at the first step) plus the pnl of the current date.
C27_NavWriteOnce ==
    /\ [][(pc = "loop" /\ todo # <<>> /\ todo' = Tail(todo)) =>
             LET d == Head(todo)
             IN  /\ d \notin DOMAIN df_nav
                 /\ DOMAIN df_nav' = DOMAIN df_nav \cup {d}
                 /\ \A x \in DOMAIN df_nav : df_nav'[x] = df_nav[x]
                 /\ LastEntryDate \in DOMAIN df_nav
                 /\ \A x \in DOMAIN df_nav : x <= LastEntryDate
                 /\ df_nav'[d] = Add(df_nav[LastEntryDate], df_pnl'[d].pnl)]_vars
    /\ [][(pc = "loop" /\ todo' = todo) => df_nav' = df_nav]_vars

\* the second step has added its entry on top of the entry of the first
\* step, with a known pnl that is not zero
C27_Witness ==
    /\ pc = "loop"
    /\ Len(drifted_positions) = 2
    /\ DOMAIN df_nav = {0, 1, 2}
    /\ ~IsNa(df_nav[2])
    /\ df_nav[2] # df_nav[1]

\* a row without its Greeks
WithoutGreeks(r) == [c \in (DOMAIN r) \ Greeks |-> r[c]]

\* the twin book differs from the book, and in Greek values only
DifferOnlyInGreeks ==
    /\ twin_positions # positions
    /\ {WithoutGreeks(r) : r \in twin_positions}
           = {WithoutGreeks(r) : r \in positions}

\* C28: two position books that differ only in delta, gamma, theta, vega or
\* rho values give the same NAV series and the same pnl, leverage and
\* cashflow on every date; only the attribution columns may differ.
C28_GreeksDoNotMoveNav ==
    DifferOnlyInGreeks =>
        /\ twin_df_nav = df_nav
        /\ DOMAIN twin_df_pnl = DOMAIN df_pnl
        /\ \A d \in DOMAIN df_pnl :
               \A col \in {"pnl", "leverage", "cashflow"} :
                   twin_df_pnl[d][col] = df_pnl[d][col]

\* both runs are over, a Greek differs, an attribution differs with it, and
\* the NAV has moved
C28_Witness ==
    /\ pc = "done"
    /\ DifferOnlyInGreeks
    /\ \E d \in DOMAIN df_pnl :
           /\ twin_df_pnl[d].delta_pnl # df_pnl[d].delta_pnl
           /\ df_pnl[d].pnl # 0
           /\ df_nav[d] # 1

\* the table BacktesterBidAskFromData.apply_tcost received has
\* bid = ask = mid on every row: it was called by
\* BacktesterFixedRelativeBidAsk.apply_tcost with relative_half_spread = 0
CalledWithFlatQuotes ==
    /\ CalledWithSpread
    /\ Started
    /\ tcost_args = 0
    /\ \A r \in positions :
           /\ SyntheticAsk(r.mid, tcost_args) = r.mid
           /\ SyntheticBid(r.mid, tcost_args) = r.mid

\* C29: under BacktesterBidAskFromData, on a row that is both an entry-date
\* and an expiration-date row the exit rule prevails: mid becomes bid for
\* weight > 0 and ask for weight < 0; and when the table has
\* bid = ask = mid on every row, the mid returned is the mid the
\* pass-through policy returns.
C29_ExitRulePrevails ==
    /\ (cls = "BacktesterBidAskFromData" /\ Started) =>
           \A r \in positions :
               (IsEntryRow(r) /\ IsExitRow(r)) =>
                   /\ r.weight > 0 => Rewritten(r).mid = r.bid
                   /\ r.weight < 0 => Rewritten(r).mid = r.ask
    /\ CalledWithFlatQuotes =>
           \A r \in positions :
               \E p \in PassthroughTCost(positions) :
                   /\ p.option_id = r.option_id
                   /\ p.date = r.date
                   /\ Rewritten(r).bid = p.mid
                   /\ Rewritten(r).ask = p.mid
                   /\ Rewritten(r).mid = p.mid

\* a long and a short instrument, each entered and expiring on its only
\* date, with bid < mid < ask
C29_Witness ==
    /\ cls = "BacktesterBidAskFromData"
    /\ Started
    /\ \E r \in positions :
           /\ r.weight > 0
           /\ IsEntryRow(r) /\ IsExitRow(r)
           /\ r.bid < r.mid /\ r.mid < r.ask
           /\ Rewritten(r).mid = r.bid
    /\ \E r \in positions :
           /\ r.weight < 0
           /\ IsEntryRow(r) /\ IsExitRow(r)
           /\ r.bid < r.mid /\ r.mid < r.ask
           /\ Rewritten(r).mid = r.ask

\* the rows of instrument i in the position table and in the per-date frames
BookRowsOf(i) == {r \in positions : r.option_id = i}

LifeRows(i) == {r \in DriftedRows : r.option_id = i}

\* the sum over a set of rows of the value in col: null with a null term
RECURSIVE RowSum(_, _)
RowSum(rows, col) ==
    IF rows = {} THEN 0
    ELSE LET r == CHOOSE x \in rows : TRUE
         IN  Add(r[col], RowSum(rows \ {r}, col))

\* the backtest is over and instrument i was observed on every date from
\* its entry date to its expiration date, with a known anchor NAV
RoundTrip(i) ==
    /\ pc = "done"
    /\ BookRowsOf(i) # {}
    /\ \A r \in BookRowsOf(i) :
           {q.date : q \in BookRowsOf(i)} = r.entry_date..r.expiration
    /\ \A r \in LifeRows(i) : ~IsNa(r.NAV)

EntryRowOf(i) == CHOOSE r \in BookRowsOf(i) : IsEntryRow(r)

ExitRowOf(i) == CHOOSE r \in BookRowsOf(i) : IsExitRow(r)

\* the anchor NAV and the weight of instrument i
AnchorOf(i) == (CHOOSE r \in LifeRows(i) : TRUE).NAV

WeightOf(i) == (CHOOSE r \in BookRowsOf(i) : TRUE).weight

\* weight * a * (rewritten price at exit - rewritten price at entry)
RewrittenRoundTrip(i) ==
    WeightOf(i) * AnchorOf(i)
        * (Rewritten(ExitRowOf(i)).mid - Rewritten(EntryRowOf(i)).mid)

\* weight * a * (bid at exit - ask at entry), long; asks and bids swapped,
\* short
QuotedRoundTrip(i) ==
    IF WeightOf(i) > 0
    THEN WeightOf(i) * AnchorOf(i)
             * (ExitRowOf(i).bid - EntryRowOf(i).ask)
    ELSE WeightOf(i) * AnchorOf(i)
             * (ExitRowOf(i).ask - EntryRowOf(i).bid)

OnlyInstrument(i) == \A r \in positions : r.option_id = i

LastBookDate == SetMax(BookDates)

====
